---- MODULE Spec2Model ----
(***************************************************************************)
(* A model of the tutorial notebooks of this repository as programs run by *)
(* a Jupyter kernel.  A kernel session has a namespace (the names bound by *)
(* the cells executed so far), a process environment and a working         *)
(* directory.  Every code cell is one action: it executes the cell's       *)
(* statements in order and stops at the first statement that raises, so    *)
(* the names bound by the statements before it stay bound.  Cells may be   *)
(* executed one at a time in any order, or queued in document order after  *)
(* a kernel restart ("Restart & Run All"); an error aborts the queue.      *)
(* A session is explored within one notebook, and for the truth notebook   *)
(* or the survey notebook within one of its sections, which share the     *)
(* setup cells.                                                            *)
(*                                                                         *)
(* Notebooks:                                                              *)
(*   "truth"   src/unnamed/part_000, second notebook (lines 756-1145):     *)
(*             the setup cells and the catalog section (lines 795-890)     *)
(*   "velocity" the same notebook: the catalog section with the cell that  *)
(*             histograms the velocity difference (lines 795-914)          *)
(*   "spectra" the same notebook: the setup cells and the section that     *)
(*             compares spectra to truth (lines 916-1070)                  *)
(*   "survey"  src/unnamed/part_000, first notebook (lines 1-754): the     *)
(*             cells that load the outputs and plot tiles on the sky       *)
(*   "exposures" the same notebook: the cells that load the outputs,       *)
(*             print the summary line and select the exposures of a pass   *)
(*   "weather" the same notebook: the cells that count completed tiles     *)
(*             over weather realizations (lines 617-679)                   *)
(*   "redrock" src/redrock/RedrockBOSSDemo.ipynb                           *)
(***************************************************************************)
EXTENDS Integers, Sequences, FiniteSets, TLC

(***************************************************************************)
(* Bounds of the input data.                                               *)
(***************************************************************************)
MaxId == 2        \* TARGETID values are 1..MaxId
MaxRows == 2      \* rows of a catalog table read from disk
MaxTiles == 2     \* tiles of the survey footprint
MaxTargets == 2   \* spectra read from the BOSS plate
NCoeff == 5       \* width of the coeff column of zfit
MaxExposures == 2 \* rows of an exposures table in the exposure analysis
MaxRealizations == 2  \* weather realizations read by the loop over directories

Ids == 1..MaxId

(***************************************************************************)
(* Generic helpers.                                                        *)
(***************************************************************************)
SeqsUpTo(S, n) == UNION {[1..k -> S] : k \in 0..n}

Range(s) == {s[i] : i \in DOMAIN s}

NoDup(s) == \A i, j \in DOMAIN s : s[i] = s[j] => i = j

MinOf(S) == CHOOSE x \in S : \A y \in S : x <= y

RECURSIVE Ascending(_)
Ascending(S) == IF S = {} THEN <<>>
                ELSE <<MinOf(S)>> \o Ascending(S \ {MinOf(S)})

Take(s, n) == [i \in 1..(IF n < Len(s) THEN n ELSE Len(s)) |-> s[i]]

(***************************************************************************)
(* Strings are sequences of one-character strings, so that stripping is    *)
(* computed and not assumed.  np.char.strip removes leading and trailing   *)
(* whitespace of every element.                                            *)
(***************************************************************************)
IsSpace(c) == c = " "

RECURSIVE LStrip(_)
LStrip(s) == IF s # <<>> /\ IsSpace(Head(s)) THEN LStrip(Tail(s)) ELSE s

RECURSIVE RStrip(_)
RStrip(s) == IF s # <<>> /\ IsSpace(s[Len(s)])
             THEN RStrip(SubSeq(s, 1, Len(s) - 1)) ELSE s

strip(s) == LStrip(RStrip(s))

(***************************************************************************)
(* Paths are sequences of components.                                      *)
(***************************************************************************)
NerscDesiRoot == <<"global", "cfs", "cdirs", "desi">>

StartDir == <<"home">>

reference_run == "19.12"

RefRunDir == NerscDesiRoot \o <<"datachallenge", "reference_runs", reference_run>>

NoPath == <<>>

EnvNames == {"DESI_ROOT", "DESISURVEY_OUTPUT", "DESI_SPECTRO_REDUX", "SPECPROD"}

\* The environment a kernel process starts with.
InitialEnv == [v \in EnvNames |-> IF v = "DESI_ROOT" THEN NerscDesiRoot ELSE NoPath]

(***************************************************************************)
(* The catalog files of the reference run, relative to RefRunDir, in the   *)
(* order in which the read cell reads them.                                *)
(***************************************************************************)
CatalogNames == <<"zcat", "targets_bright", "targets_dark", "truth_bright", "truth_dark">>

CatalogPath(name) ==
    CASE name = "zcat" -> <<"spectro", "redux", "mini", "zcatalog-mini.fits">>
      [] name = "targets_bright" -> <<"targets", "targets-bright.fits">>
      [] name = "targets_dark" -> <<"targets", "targets-dark.fits">>
      [] name = "truth_bright" -> <<"targets", "truth-bright.fits">>
      [] name = "truth_dark" -> <<"targets", "truth-dark.fits">>

(***************************************************************************)
(* Input tables.  A template type is named after its target; the file may  *)
(* store it with leading or trailing blanks.                               *)
(***************************************************************************)
Pads == {<<>>, <<" ">>}

TemplateName(id) == IF id % 2 = 1 THEN <<"E", "L", "G">> ELSE <<"Q", "S", "O">>

ZcatRow(id, z) == [TARGETID |-> id, Z |-> z]

TruthRow(id, lead, trail) ==
    [TARGETID |-> id, TEMPLATETYPE |-> lead \o TemplateName(id) \o trail, TRUEZ |-> id]

TargetRow(id) == [TARGETID |-> id]

\* A redshift catalog: any sequence of targets; Z stands for the measured value.
ZcatTable(ids) == [i \in DOMAIN ids |-> ZcatRow(ids[i], i)]

TruthTable(ids, lead, trail) == [i \in DOMAIN ids |-> TruthRow(ids[i], lead, trail)]

TargetTable(ids) == [i \in DOMAIN ids |-> TargetRow(ids[i])]

\* Every target is simulated in one program: the bright truth holds the
\* targets the dark truth does not.
CatalogInput(zs, ds, lead, trail) ==
    [zcat |-> ZcatTable(zs),
     targets_bright |-> TargetTable(Ascending(Ids \ Range(ds))),
     targets_dark |-> TargetTable(ds),
     truth_bright |-> TruthTable(Ascending(Ids \ Range(ds)), lead, trail),
     truth_dark |-> TruthTable(ds, lead, trail)]

CatalogInputs ==
    { CatalogInput(zs, ds, lead, trail) :
      zs \in SeqsUpTo(Ids, MaxRows),
      ds \in {Ascending(d) : d \in SUBSET Ids},
      lead \in Pads, trail \in Pads }

\* The content the files have in the runs where one of them is absent: what a
\* read does when a file is absent does not depend on the content of the others.
SampleCatalogs == CatalogInput(<<2, 1>>, <<1>>, <<>>, <<" ">>)

NoCatalogs == [zcat |-> <<>>, targets_bright |-> <<>>, targets_dark |-> <<>>,
               truth_bright |-> <<>>, truth_dark |-> <<>>]

(***************************************************************************)
(* Catalogs for the velocity-difference histograms: n dark targets with k  *)
(* distinct object types among them, each measured at a redshift that is   *)
(* off by a multiple of the target's ID.                                   *)
(***************************************************************************)
ObjectTypeNames == << <<"B", "G", "S">>, <<"E", "L", "G">>, <<"L", "R", "G">>,
                      <<"Q", "S", "O">>, <<"S", "T", "A", "R">>, <<"W", "D">>,
                      <<"S", "K", "Y">> >>

TypedRow(id, k) ==
    [TARGETID |-> id, TEMPLATETYPE |-> ObjectTypeNames[((id - 1) % k) + 1], TRUEZ |-> id]

VelocityCatalog(n, k) ==
    [zcat |-> [i \in 1..n |-> ZcatRow(i, i + (i % 2))],
     targets_bright |-> <<>>,
     targets_dark |-> [i \in 1..n |-> TargetRow(i)],
     truth_bright |-> <<>>,
     truth_dark |-> [i \in 1..n |-> TypedRow(i, k)]]

VelocityCatalogs ==
    {NoCatalogs} \cup
    UNION { {VelocityCatalog(k, k), VelocityCatalog(k + 1, k)} :
            k \in 1..Len(ObjectTypeNames) }

\* The input files that are absent: none, or one of them.
MissingChoices(files) == {{}} \cup {{f} : f \in files}

(***************************************************************************)
(* Survey simulation outputs.  The simulator writes the tiledata HDU with  *)
(* one row per tile, in the order of the tile file it was run with; the    *)
(* HDU has no tile identifier column.  desisurvey.tiles.get_tiles() reads  *)
(* the tile file of the running kernel.                                    *)
(***************************************************************************)
SurveyOutputDir ==
    NerscDesiRoot \o <<"datachallenge", "surveysim2018", "weather", "000">>

Perms(n) == {p \in [1..n -> 1..n] : NoDup(p)}

Tile(t) == [tileID |-> t, tileRA |-> 10 * t, tileDEC |-> 0 - t, passnum |-> t % 2]

TileStat(t) == [avail |-> 100 + t, snr2frac |-> t - 1]

Exposure(i, t) == [mjd |-> 58820 + i, tileid |-> t, snr2frac |-> t - 1]

Night(i) == [night |-> i, nexp |-> 1]

SurveyInput(cat, sim) ==
    [tilefile |-> [i \in DOMAIN cat |-> Tile(cat[i])],
     simtiles |-> sim,
     exposures |-> [i \in DOMAIN sim |-> Exposure(i, sim[i])],
     tiledata |-> [i \in DOMAIN sim |-> TileStat(sim[i])],
     stats |-> [i \in DOMAIN sim |-> Night(i)]]

\* The tile file and the simulator list the same tiles, in any two orders.
SurveyInputs ==
    UNION { {SurveyInput(cat, sim) : cat \in Perms(n), sim \in Perms(n)} :
            n \in 1..MaxTiles }

SurveyFiles == {"exposures.fits", "tiledata", "stats.fits"}

NoSurvey == [tilefile |-> <<>>, simtiles |-> <<>>, exposures |-> <<>>,
             tiledata |-> <<>>, stats |-> <<>>]

(***************************************************************************)
(* Inputs of the exposure analysis: two tiles with any assignment to the   *)
(* passes 0 and 1, and a simulation given by its visits in time order.     *)
(* Each visit exposes one tile and adds `gain` to the tile's accumulated   *)
(* snr2frac, which is what the exposures table records.  Exposures are     *)
(* taken a fixed number of days apart from the first, chosen so that rows  *)
(* fall inside and on either end of the window the loop over realizations  *)
(* counts in.                                                              *)
(***************************************************************************)
startmjd == 58821

DaysInWindow == 365

PassAssignments == {<<0, 1>>, <<1, 0>>, <<0, 0>>, <<1, 1>>}

PassTile(t, p) == [tileID |-> t, tileRA |-> 10 * t, tileDEC |-> 0 - t, passnum |-> p]

Visits ==
    SeqsUpTo([tileid : 1..2, gain : 0..1], MaxExposures)

\* The MJD of the first exposure and the days between exposures.
Calendars == {<<startmjd, 1>>, <<startmjd + 1, 1>>, <<startmjd + 1, DaysInWindow - 1>>}

RECURSIVE SumGains(_, _)
SumGains(visits, t) ==
    IF visits = <<>> THEN 0
    ELSE (IF Head(visits).tileid = t THEN Head(visits).gain ELSE 0)
         + SumGains(Tail(visits), t)

\* The exposures table a simulation writes: one row per visit.
ExposureRows(visits, calendar) ==
    [i \in DOMAIN visits |->
        [mjd |-> calendar[1] + (i - 1) * calendar[2],
         tileid |-> visits[i].tileid,
         snr2frac |-> SumGains(SubSeq(visits, 1, i), visits[i].tileid)]]

\* Weather realization d of a simulation: its first d visits are lost.
Realization(visits, calendar, d) ==
    ExposureRows(SubSeq(visits, d + 1, Len(visits)), calendar)

ExposureInput(passes, visits, calendar) ==
    [tilefile |-> [t \in DOMAIN passes |-> PassTile(t, passes[t])],
     simtiles |-> [t \in DOMAIN passes |-> t],
     exposures |-> ExposureRows(visits, calendar),
     tiledata |-> [t \in DOMAIN passes |->
                     [avail |-> 100 + t, snr2frac |-> SumGains(visits, t)]],
     stats |-> <<>>,
     realizations |-> [k \in 1..MaxRealizations |-> Realization(visits, calendar, k - 1)]]

ExposureInputs ==
    { ExposureInput(ps, visits, calendar) :
        ps \in PassAssignments, visits \in Visits, calendar \in Calendars }

(***************************************************************************)
(* The spectra file and the truth file of one brick.  The fibermap has a   *)
(* row at index itarget; the brick's TRUTH table lists some of the targets.*)
(***************************************************************************)
itarget == 7

SpectraPath == <<"spectra-64", "52", "5299", "spectra-64-5299.fits">>

\* Python indices start at 0: row k of a table is element k + 1 of its sequence.
At(table, k) == table[k + 1]

BrickInput(fid, metaids) ==
    [fibermap |-> [i \in 1..(itarget + 1) |-> TargetRow(IF i = itarget + 1 THEN fid ELSE 0)],
     truemeta |-> TargetTable(metaids)]

BrickInputs ==
    { BrickInput(fid, Ascending(d)) : fid \in Ids, d \in SUBSET Ids }

SampleBrick == BrickInput(1, <<1>>)

BrickFiles == {"spectra.fits", "truth-brick.fits"}

NoBrick == [fibermap |-> <<>>, truemeta |-> <<>>]

(***************************************************************************)
(* BOSS spectra and the result of the redshift scan.  boss.read_spectra    *)
(* returns the targets in an order of its own; zfind returns, for every    *)
(* target, its minima: znum 0 is the best fit, of any spectral type.       *)
(***************************************************************************)
SpecTypes == {"QSO", "GALAXY"}

NextType(ty) == IF ty = "QSO" THEN "GALAXY" ELSE "QSO"

Target(id) == [id |-> id, wave |-> <<3600, 3601>>, flux |-> <<id, id + 1>>]

Coefficients(id, znum) == [k \in 1..NCoeff |-> 100 * id + 10 * znum + k]

ZfitRows(id, best) ==
    << [targetid |-> id, znum |-> 0, spectype |-> best, z |-> id,
        coeff |-> Coefficients(id, 0)],
       [targetid |-> id, znum |-> 1, spectype |-> NextType(best), z |-> id + 10,
        coeff |-> Coefficients(id, 1)] >>

RECURSIVE Flatten(_)
Flatten(ss) == IF ss = <<>> THEN <<>> ELSE Head(ss) \o Flatten(Tail(ss))

BossInput(order, best) ==
    [targets |-> [i \in DOMAIN order |-> Target(order[i])],
     zscan |-> [id \in Range(order) |->
                  [ty \in SpecTypes |-> IF ty = best[id] THEN 1 ELSE 2]],
     zfit |-> Flatten([i \in DOMAIN order |-> ZfitRows(order[i], best[order[i]])])]

BossInputs ==
    UNION { {BossInput(order, best) : order \in Perms(n), best \in [1..n -> SpecTypes]} :
            n \in 1..MaxTargets }

NoBoss == [targets |-> <<>>, zscan |-> <<>>, zfit |-> <<>>]

(***************************************************************************)
(* State.                                                                   *)
(***************************************************************************)
VARIABLES
    nb,              \* the notebook this kernel session runs
    catalogs,        \* truth notebook: the content of the catalog files on disk
    brick,           \* truth notebook: the spectra file and the brick's truth file
    simout,          \* survey notebook: the simulation outputs and the tile file
    boss,            \* redrock notebook: the spectra read and what zfind returns
    missing,         \* names of the input files that are absent
    cwd,             \* working directory of the kernel process
    env,             \* os.environ of the kernel process
    bound,           \* names bound in the kernel namespace
    queue,           \* cells queued for execution, in order
    last,            \* the last executed cell and whether it completed
    out,             \* what the last executed cell displayed
    zcat, targets_bright, targets_dark, truth_bright, truth_dark, ztruth,
    spectra, truemeta, itruth,
    exposures, tilestats, tiles, stats,
    pass1, completed,
    targets, zscan, zfit, w, coeff, zbest, fit, A

kernelVars == <<cwd, env, bound, queue, last, out>>
inputVars == <<nb, catalogs, brick, simout, boss, missing>>
truthVars == <<zcat, targets_bright, targets_dark, truth_bright, truth_dark, ztruth>>
spectraVars == <<spectra, truemeta, itruth>>
surveyVars == <<exposures, tilestats, tiles, stats>>
completionVars == <<pass1, completed>>
redrockVars == <<targets, zscan, zfit, w, coeff, zbest, fit, A>>
vars == <<inputVars, kernelVars, truthVars, spectraVars, surveyVars, completionVars,
          redrockVars>>

NoOut == [kind |-> "none"]

Started == [cell |-> "start", ok |-> TRUE]

(***************************************************************************)
(* Kernel: a cell runs when it is the head of the queue, or on its own     *)
(* when nothing is queued.  A failing cell aborts whatever is queued.      *)
(***************************************************************************)
TruthCells == <<"Setup", "Chdir", "ReadCatalogs", "StripTemplateType",
                "PrintColnames", "JoinZtruth">>

SpectraCells == <<"Setup", "Chdir", "SpectroEnv", "ReadSpectraFile", "PlotTarget",
                  "OpenTruthFile", "FindItruth", "PlotTruth">>

SurveyCells == <<"LoadModules", "SetOutput", "LoadExposures", "GetTiles",
                 "PrintShapes", "PlotAvail", "PlotSnr2frac", "RestoreStats">>

ExposureCells == <<"Pylab", "LoadModules", "SetOutput", "LoadExposures", "PrintSummary",
                   "GetTiles", "SelectPass1">>

WeatherCells == <<"LoadModules", "SetOutput", "GetTiles", "DefCompletedInTimerange",
                  "LoopRealizations", "PrintFractions">>

RedrockCells == <<"RedrockImports", "ReadSpectra", "LoadTemplates", "Zfind",
                  "PlotChi2", "PrintBest", "ListTemplates", "EvalFit", "PlotFit",
                  "Rebin">>

\* The code cells of the part of a notebook a session works in, in document order.
VelocityCells == TruthCells \o <<"PlotDv">>

CellsOf(notebook) == CASE notebook = "truth" -> TruthCells
                       [] notebook = "velocity" -> VelocityCells
                       [] notebook = "spectra" -> SpectraCells
                       [] notebook = "survey" -> SurveyCells
                       [] notebook = "exposures" -> ExposureCells
                       [] notebook = "weather" -> WeatherCells
                       [] notebook = "redrock" -> RedrockCells

Ready(cell) ==
    /\ cell \in Range(CellsOf(nb))
    /\ IF queue = <<>> THEN TRUE ELSE Head(queue) = cell

Finish(cell, ok, shown) ==
    /\ last' = [cell |-> cell, ok |-> ok]
    /\ out' = IF ok THEN shown ELSE NoOut
    /\ queue' = IF ok /\ queue # <<>> THEN Tail(queue) ELSE <<>>

\* The number of leading statements of a cell that complete, given for each
\* statement whether it completes.
RECURSIVE Completed(_)
CompletedAtomically(oks) == IF \A i \in DOMAIN oks : oks[i] THEN Len(oks) ELSE 0

Completed(oks) == IF oks = <<>> \/ ~Head(oks) THEN 0 ELSE 1 + Completed(Tail(oks))

(***************************************************************************)
(* Truth notebook.                                                          *)
(***************************************************************************)
\* import os, numpy as np, astropy.table, desitutorials; reference_run = '19.12';
\* %pylab inline
Setup ==
    /\ Ready("Setup")
    /\ bound' = bound \cup {"os", "np", "astropy", "desitutorials", "reference_run", "pylab"}
    /\ Finish("Setup", TRUE, NoOut)
    /\ UNCHANGED <<inputVars, cwd, env, truthVars, spectraVars, surveyVars, redrockVars, completionVars>>

\* os.chdir(os.path.join(os.environ['DESI_ROOT'], 'datachallenge', 'reference_runs', reference_run))
Chdir ==
    /\ Ready("Chdir")
    /\ LET target == env["DESI_ROOT"] \o <<"datachallenge", "reference_runs", reference_run>>
           ok == /\ {"os", "reference_run"} \subseteq bound
                 /\ env["DESI_ROOT"] # NoPath
                 /\ target = RefRunDir
       IN /\ cwd' = IF ok THEN target ELSE cwd
          /\ Finish("Chdir", ok, NoOut)
    /\ UNCHANGED <<inputVars, env, bound, truthVars, spectraVars, surveyVars, redrockVars, completionVars>>

\* astropy.table.Table.read(<relative path>, hdu=1)
Readable(name) ==
    /\ "astropy" \in bound
    /\ name \notin missing
    /\ cwd \o CatalogPath(name) = RefRunDir \o CatalogPath(name)

ReadCatalogs ==
    /\ Ready("ReadCatalogs")
    /\ LET n == Completed([i \in DOMAIN CatalogNames |-> Readable(CatalogNames[i])])
       IN /\ bound' = bound \cup {CatalogNames[i] : i \in 1..n}
          /\ zcat' = IF n >= 1 THEN catalogs.zcat ELSE zcat
          /\ targets_bright' = IF n >= 2 THEN catalogs.targets_bright ELSE targets_bright
          /\ targets_dark' = IF n >= 3 THEN catalogs.targets_dark ELSE targets_dark
          /\ truth_bright' = IF n >= 4 THEN catalogs.truth_bright ELSE truth_bright
          /\ truth_dark' = IF n >= 5 THEN catalogs.truth_dark ELSE truth_dark
          /\ Finish("ReadCatalogs", n = Len(CatalogNames), NoOut)
    /\ UNCHANGED <<inputVars, cwd, env, ztruth, spectraVars, surveyVars, redrockVars, completionVars>>

\* table['TEMPLATETYPE'][:] = np.char.strip(table['TEMPLATETYPE'][:])
StripColumnTrailing(table) ==
    [i \in DOMAIN table |-> [table[i] EXCEPT !.TEMPLATETYPE = RStrip(@)]]

StripColumn(table) ==
    [i \in DOMAIN table |-> [table[i] EXCEPT !.TEMPLATETYPE = strip(@)]]

TemplateTypes(table) == {table[i].TEMPLATETYPE : i \in DOMAIN table}

StripTemplateType ==
    /\ Ready("StripTemplateType")
    /\ LET n == Completed(<< {"np", "truth_bright"} \subseteq bound,
                             {"np", "truth_dark"} \subseteq bound >>)
       IN /\ truth_bright' = IF n >= 1 THEN StripColumn(truth_bright) ELSE truth_bright
          /\ truth_dark' = IF n >= 2 THEN StripColumn(truth_dark) ELSE truth_dark
          /\ Finish("StripTemplateType", n = 2,
                    [kind |-> "template types",
                     data |-> TemplateTypes(truth_dark') \cup TemplateTypes(truth_bright')])
    /\ UNCHANGED <<inputVars, cwd, env, bound, zcat, targets_bright, targets_dark, ztruth,
                   spectraVars, surveyVars, redrockVars, completionVars>>

\* def print_colnames(table_name, tx): ...; three calls
PrintColnames ==
    /\ Ready("PrintColnames")
    /\ bound' = bound \cup {"print_colnames"}
    /\ Finish("PrintColnames", {"zcat", "targets_dark", "truth_dark"} \subseteq bound,
              [kind |-> "colnames"])
    /\ UNCHANGED <<inputVars, cwd, env, truthVars, spectraVars, surveyVars, redrockVars, completionVars>>

(***************************************************************************)
(* astropy.table.join(left, right, keys='TARGETID') with the default       *)
(* join_type='inner': the rows are sorted by key; for each key present in  *)
(* both tables, every left row with the key is combined with every right   *)
(* row with the key.                                                       *)
(***************************************************************************)
Combine(zrow, trow) ==
    [TARGETID |-> zrow.TARGETID, Z |-> zrow.Z,
     TEMPLATETYPE |-> trow.TEMPLATETYPE, TRUEZ |-> trow.TRUEZ]

Keys(table) == {table[i].TARGETID : i \in DOMAIN table}

WithKey(table, k) == SelectSeq(table, LAMBDA row : row.TARGETID = k)

RECURSIVE Cross(_, _)
Cross(ls, rs) ==
    IF ls = <<>> THEN <<>>
    ELSE [j \in DOMAIN rs |-> Combine(Head(ls), rs[j])] \o Cross(Tail(ls), rs)

RECURSIVE JoinKeys(_, _, _)
JoinKeys(ks, left, right) ==
    IF ks = {} THEN <<>>
    ELSE Cross(WithKey(left, MinOf(ks)), WithKey(right, MinOf(ks)))
         \o JoinKeys(ks \ {MinOf(ks)}, left, right)

InnerKeys(left, right) == Keys(left) \cap Keys(right)

join(left, right) == JoinKeys(InnerKeys(left, right), left, right)

\* ztruth = astropy.table.join(zcat, truth_dark, keys='TARGETID'); print_colnames('ztruth', ztruth)
JoinedTablesBright == <<zcat, truth_bright>>

JoinedTables == <<zcat, truth_dark>>

JoinZtruth ==
    /\ Ready("JoinZtruth")
    /\ LET n == Completed(<< {"astropy", "zcat", "truth_dark"} \subseteq bound,
                             "print_colnames" \in bound >>)
       IN /\ ztruth' = IF n >= 1 THEN join(JoinedTables[1], JoinedTables[2]) ELSE ztruth
          /\ bound' = IF n >= 1 THEN bound \cup {"ztruth"} ELSE bound
          /\ Finish("JoinZtruth", n = 2, [kind |-> "colnames"])
    /\ UNCHANGED <<inputVars, cwd, env, zcat, targets_bright, targets_dark,
                   truth_bright, truth_dark, spectraVars, surveyVars, redrockVars, completionVars>>

\* The subplot grid: subplot(2, 3, index)
nrows == 2
ncols == 3

\* 3e5, the speed of light in km/s
c_kms == 300000

\* A grid that accepts every positive index.
subplot_any(index) == index >= 1

\* subplot(nrows, ncols, index) raises ValueError unless 1 <= index <= nrows*ncols.
subplot(index) == 1 <= index /\ index <= nrows * ncols

\* 3e5 * (Z - TRUEZ) / (1 + TRUEZ) of a row, as a fraction.
dv(row) == [num |-> c_kms * (row.Z - row.TRUEZ), den |-> 1 + row.TRUEZ]

\* ii = ztruth['TEMPLATETYPE'] == objtype
RowsOfType(table, objtype) == {i \in DOMAIN table : table[i].TEMPLATETYPE = objtype}

\* One panel: hist(dv[ii], ...) labelled with the object type.
Panel(table, objtype) ==
    [objtype |-> objtype,
     rows |-> RowsOfType(table, objtype),
     hist |-> [i \in RowsOfType(table, objtype) |-> dv(table[i])]]

\* dv = 3e5 * (ztruth['Z'] - ztruth['TRUEZ']) / (1 + ztruth['TRUEZ'])
\* figure(figsize=(9,6))
\* for i, objtype in enumerate(set(ztruth['TEMPLATETYPE'])):
\*     subplot(2,3,1+i); ii = ...; hist(dv[ii], 50, (-100, 100)); xlabel(...)
\* tight_layout()
\* The order in which the set is enumerated does not change the indices tried,
\* 1 .. number of types, nor the panels of a loop that completes.
PlotDv ==
    /\ Ready("PlotDv")
    /\ LET ntypes == Cardinality(TemplateTypes(ztruth))
           n == Completed(<< "ztruth" \in bound,
                             "pylab" \in bound,
                             \A i \in 0..(ntypes - 1) : subplot(1 + i),
                             TRUE >>)
       IN /\ bound' = bound \cup (IF n >= 1 THEN {"dv"} ELSE {})
                            \cup (IF n >= 2 /\ ntypes > 0 THEN {"i", "objtype", "ii"} ELSE {})
          /\ Finish("PlotDv", n = 4,
                    [kind |-> "histograms",
                     data |-> {Panel(ztruth, t) : t \in TemplateTypes(ztruth)}])
    /\ UNCHANGED <<inputVars, cwd, env, truthVars, spectraVars, surveyVars, redrockVars,
                   completionVars>>

(***************************************************************************)
(* Truth notebook, section "Comparing spectra to truth".                   *)
(***************************************************************************)
\* import astropy.io.fits; import desispec.io
\* os.environ['DESI_SPECTRO_REDUX'] = os.path.join(os.getcwd(), 'spectro', 'redux')
\* os.environ['SPECPROD'] = 'mini'
\* A redux directory placed under $DESI_ROOT, whatever the working directory.
spectro_redux_of_root == env["DESI_ROOT"] \o <<"spectro", "redux">>

\* os.path.join(os.getcwd(), 'spectro', 'redux')
spectro_redux == cwd \o <<"spectro", "redux">>

SpectroEnv ==
    /\ Ready("SpectroEnv")
    /\ LET n == Completed(<<TRUE, TRUE, "os" \in bound, "os" \in bound>>)
       IN /\ bound' = bound \cup {"astropy", "desispec"}
          /\ env' = IF n = 4
                    THEN [env EXCEPT !["DESI_SPECTRO_REDUX"] = spectro_redux,
                                     !["SPECPROD"] = <<"mini">>]
                    ELSE env
          /\ Finish("SpectroEnv", n = 4, NoOut)
    /\ UNCHANGED <<inputVars, cwd, truthVars, spectraVars, surveyVars, redrockVars, completionVars>>

\* desispec.io.findfile('spectra', groupname='5299', nside=64): the path is
\* built from the two environment variables.
findfile == env["DESI_SPECTRO_REDUX"] \o env["SPECPROD"] \o SpectraPath

\* specfile = desispec.io.findfile(...); spectra = desispec.io.read_spectra(specfile)
ReadSpectraFile ==
    /\ Ready("ReadSpectraFile")
    /\ LET n == Completed(<< /\ "desispec" \in bound
                             /\ env["DESI_SPECTRO_REDUX"] # NoPath
                             /\ env["SPECPROD"] # NoPath,
                             /\ "spectra.fits" \notin missing
                             /\ findfile = RefRunDir \o <<"spectro", "redux", "mini">> \o SpectraPath >>)
       IN /\ bound' = bound \cup (IF n >= 1 THEN {"specfile"} ELSE {})
                            \cup (IF n >= 2 THEN {"spectra"} ELSE {})
          /\ spectra' = IF n >= 2 THEN brick.fibermap ELSE spectra
          /\ Finish("ReadSpectraFile", n = 2, NoOut)
    /\ UNCHANGED <<inputVars, cwd, env, truthVars, truemeta, itruth, surveyVars, redrockVars, completionVars>>

\* itarget = 7; plot(spectra.wave['b'], spectra.flux['b'][itarget], ...) for b, r, z
PlotTarget ==
    /\ Ready("PlotTarget")
    /\ bound' = bound \cup {"itarget"}
    /\ Finish("PlotTarget", {"pylab", "spectra"} \subseteq bound,
              [kind |-> "spectrum", id |-> At(spectra, itarget).TARGETID])
    /\ UNCHANGED <<inputVars, cwd, env, truthVars, spectraVars, surveyVars, redrockVars, completionVars>>

\* datadir = '/global/cfs/cdirs/desi/datachallenge/dc17a-twopct'
\* fx = astropy.io.fits.open(datadir+'/targets/008/truth-0084m085.fits'); print(fx.info())
\* truewave = fx['WAVE'].data; trueflux = fx['FLUX'].data; truemeta = fx['TRUTH'].data
TruthFileNames == <<"datadir", "fx", "fx", "truewave", "trueflux", "truemeta">>

OpenTruthFile ==
    /\ Ready("OpenTruthFile")
    /\ LET opened == "astropy" \in bound /\ "truth-brick.fits" \notin missing
           n == Completed(<<TRUE, opened, TRUE, TRUE, TRUE, TRUE>>)
       IN /\ bound' = bound \cup {TruthFileNames[i] : i \in 1..n}
          /\ truemeta' = IF n >= 6 THEN brick.truemeta ELSE truemeta
          /\ Finish("OpenTruthFile", n = 6, [kind |-> "hdu list"])
    /\ UNCHANGED <<inputVars, cwd, env, truthVars, spectra, itruth, surveyVars, redrockVars, completionVars>>

\* np.where(column == value)[0]: the indices, from 0, of the rows that match
where(table, id) == {k \in 0..(Len(table) - 1) : At(table, k).TARGETID = id}

\* itruth = np.where(truemeta['TARGETID'] == spectra.fibermap['TARGETID'][itarget])[0][0]
FindItruth ==
    /\ Ready("FindItruth")
    /\ LET evaluated == {"np", "truemeta", "spectra", "itarget"} \subseteq bound
           found == IF evaluated
                    THEN where(truemeta, At(spectra, itarget).TARGETID)
                    ELSE {}
           ok == found # {}
       IN /\ itruth' = IF ok THEN MinOf(found) ELSE itruth
          /\ bound' = IF ok THEN bound \cup {"itruth"} ELSE bound
          /\ Finish("FindItruth", ok, NoOut)
    /\ UNCHANGED <<inputVars, cwd, env, truthVars, spectra, truemeta, surveyVars, redrockVars, completionVars>>

\* itarget = 7; the three plots of the spectrum; plot(truewave, 1e17*trueflux[itruth], 'y-')
PlotTruth ==
    /\ Ready("PlotTruth")
    /\ bound' = bound \cup {"itarget"}
    /\ LET ok == {"pylab", "spectra", "truewave", "trueflux", "itruth"} \subseteq bound
       IN Finish("PlotTruth", ok,
                 [kind |-> "spectrum and truth",
                  id |-> At(spectra, itarget).TARGETID, truth |-> itruth])
    /\ UNCHANGED <<inputVars, cwd, env, truthVars, spectraVars, surveyVars, redrockVars, completionVars>>

(***************************************************************************)
(* Survey notebook.                                                         *)
(***************************************************************************)
\* import desisurvey.utils, desisurvey.plots; from astropy.io import fits;
\* import numpy, desimodel, surveysim.stats
LoadModules ==
    /\ Ready("LoadModules")
    /\ bound' = bound \cup {"desisurvey", "fits", "numpy", "desimodel", "surveysim"}
    /\ Finish("LoadModules", TRUE, NoOut)
    /\ UNCHANGED <<inputVars, cwd, env, truthVars, spectraVars, surveyVars, redrockVars, completionVars>>

\* import os; os.environ['DESISURVEY_OUTPUT'] = '/global/cfs/cdirs/desi/.../weather/000'
SetOutput ==
    /\ Ready("SetOutput")
    /\ bound' = bound \cup {"os"}
    /\ env' = [env EXCEPT !["DESISURVEY_OUTPUT"] = SurveyOutputDir]
    /\ Finish("SetOutput", TRUE, NoOut)
    /\ UNCHANGED <<inputVars, cwd, truthVars, spectraVars, surveyVars, redrockVars, completionVars>>

\* fits.getdata(os.path.join(os.environ['DESISURVEY_OUTPUT'], file), hdu)
HduReadable(file, hdu) ==
    /\ {"fits", "os"} \subseteq bound
    /\ env["DESISURVEY_OUTPUT"] = SurveyOutputDir
    /\ file \notin missing
    /\ hdu \notin missing

LoadExposures ==
    /\ Ready("LoadExposures")
    /\ LET n == Completed(<< HduReadable("exposures.fits", "exposures"),
                             HduReadable("exposures.fits", "tiledata") >>)
       IN /\ exposures' = IF n >= 1 THEN simout.exposures ELSE exposures
          /\ tilestats' = IF n >= 2 THEN simout.tiledata ELSE tilestats
          /\ bound' = bound \cup {<<"exposures", "tilestats">>[i] : i \in 1..n}
          /\ Finish("LoadExposures", n = 2, NoOut)
    /\ UNCHANGED <<inputVars, cwd, env, truthVars, spectraVars, tiles, stats, redrockVars, completionVars>>

\* tiles = desisurvey.tiles.get_tiles()
GetTiles ==
    /\ Ready("GetTiles")
    /\ LET ok == "desisurvey" \in bound
       IN /\ tiles' = IF ok THEN simout.tilefile ELSE tiles
          /\ bound' = IF ok THEN bound \cup {"tiles"} ELSE bound
          /\ Finish("GetTiles", ok, NoOut)
    /\ UNCHANGED <<inputVars, cwd, env, truthVars, spectraVars, exposures, tilestats, stats, redrockVars, completionVars>>

\* print(tiles.tileRA.shape, tilestats.shape)
PrintShapes ==
    /\ Ready("PrintShapes")
    /\ Finish("PrintShapes", {"tiles", "tilestats"} \subseteq bound,
              [kind |-> "shapes", data |-> <<Len(tiles), Len(tilestats)>>])
    /\ UNCHANGED <<inputVars, cwd, env, bound, truthVars, spectraVars, surveyVars, redrockVars, completionVars>>

(***************************************************************************)
(* desisurvey.plots.plot_sky_passes(ra, dec, passnum, z): the four         *)
(* arguments are plain arrays; the point drawn for index i has the         *)
(* position and pass at index i of the first three and the value at index  *)
(* i of z.  The model's inputs always have equal lengths.                  *)
(***************************************************************************)
Column(table, name) == [i \in DOMAIN table |-> table[i][name]]

plot_sky_passes(ra, dec, passnum, z) ==
    [i \in DOMAIN ra |-> [ra |-> ra[i], dec |-> dec[i], passnum |-> passnum[i], z |-> z[i]]]

PlotTilestats(cell, column) ==
    /\ Ready(cell)
    /\ Finish(cell, {"desisurvey", "tiles", "tilestats"} \subseteq bound,
              [kind |-> "sky passes",
               data |-> plot_sky_passes(Column(tiles, "tileRA"), Column(tiles, "tileDEC"),
                                        Column(tiles, "passnum"), Column(tilestats, column))])
    /\ UNCHANGED <<inputVars, cwd, env, bound, truthVars, spectraVars, surveyVars, redrockVars, completionVars>>

\* plot_sky_passes(tiles.tileRA, tiles.tileDEC, tiles.passnum, tilestats['avail'], ...)
PlotAvailOfSnr2frac == PlotTilestats("PlotAvail", "snr2frac")

PlotAvail == PlotTilestats("PlotAvail", "avail")

\* plot_sky_passes(tiles.tileRA, tiles.tileDEC, tiles.passnum, tilestats['snr2frac'], ...)
PlotSnr2frac == PlotTilestats("PlotSnr2frac", "snr2frac")

\* stats = surveysim.stats.SurveyStatistics(restore=os.path.join(os.environ[...], 'stats.fits'))
RestoreStats ==
    /\ Ready("RestoreStats")
    /\ LET ok == /\ {"surveysim", "os"} \subseteq bound
                 /\ env["DESISURVEY_OUTPUT"] = SurveyOutputDir
                 /\ "stats.fits" \notin missing
       IN /\ stats' = IF ok THEN simout.stats ELSE stats
          /\ bound' = IF ok THEN bound \cup {"stats"} ELSE bound
          /\ Finish("RestoreStats", ok, NoOut)
    /\ UNCHANGED <<inputVars, cwd, env, truthVars, spectraVars, exposures, tilestats, tiles, redrockVars, completionVars>>

(***************************************************************************)
(* Survey notebook: the summary line, the exposures of the first pass and *)
(* the completion over weather realizations.                               *)
(***************************************************************************)
\* %pylab inline
Pylab ==
    /\ Ready("Pylab")
    /\ bound' = bound \cup {"pylab", "plt", "np", "numpy"}
    /\ Finish("Pylab", TRUE, NoOut)
    /\ UNCHANGED <<inputVars, cwd, env, truthVars, spectraVars, surveyVars, completionVars,
                   redrockVars>>

MaxOf(S) == CHOOSE x \in S : \A y \in S : y <= x

\* desisurvey.utils.get_date(mjd): the calendar date of an MJD
get_date(mjd) == [date |-> mjd]

\* numpy.sum(table[column] >= 1)
CountAtLeastOne(table, column) ==
    Cardinality({i \in DOMAIN table : table[i][column] >= 1})

\* print('Survey runs {} to {} and observes {} tiles with {} exposures.'.format(
\*     get_date(numpy.min(exposures['mjd'])), get_date(numpy.max(exposures['mjd'])),
\*     numpy.sum(tilestats['snr2frac'] >= 1), len(exposures)))
PrintSummary ==
    /\ Ready("PrintSummary")
    /\ LET ok == /\ {"desisurvey", "numpy", "exposures", "tilestats"} \subseteq bound
                 /\ exposures # <<>>
       IN Finish("PrintSummary", ok,
                 [kind |-> "summary",
                  first |-> get_date(MinOf(Range(Column(exposures, "mjd")))),
                  last |-> get_date(MaxOf(Range(Column(exposures, "mjd")))),
                  tiles |-> CountAtLeastOne(tilestats, "snr2frac"),
                  exposures |-> Len(exposures)])
    /\ UNCHANGED <<inputVars, cwd, env, bound, truthVars, spectraVars, surveyVars,
                   completionVars, redrockVars>>

\* tiles.tileID[tiles.passnum == 0]
TileIDsOfPass(p) == {tiles[i].tileID : i \in {j \in DOMAIN tiles : tiles[j].passnum = p}}

\* A selection that stops below the largest tile ID of pass 0.
SelectBelow(table, maxid) == SelectSeq(table, LAMBDA row : row.tileid < maxid)

\* exposures[exposures['tileid'] <= maxpass0]
SelectUpTo(table, maxid) == SelectSeq(table, LAMBDA row : row.tileid <= maxid)

\* maxpass0 = numpy.max(tiles.tileID[tiles.passnum == 0])
\* pass1 = exposures[exposures['tileid'] <= maxpass0]
\* plt.scatter(pass1['EXPTIME'] / 60, pass1['SEEING'], c=pass1['AIRMASS'], ...); labels
SelectPass1 ==
    /\ Ready("SelectPass1")
    /\ LET n == Completed(<< {"numpy", "tiles"} \subseteq bound /\ TileIDsOfPass(0) # {},
                             "exposures" \in bound,
                             "plt" \in bound >>)
       IN /\ bound' = bound \cup {<<"maxpass0", "pass1">>[i] : i \in 1..(IF n > 2 THEN 2 ELSE n)}
          /\ pass1' = IF n >= 2 THEN SelectUpTo(exposures, MaxOf(TileIDsOfPass(0))) ELSE pass1
          /\ Finish("SelectPass1", n = 3, [kind |-> "scatter", data |-> pass1'])
    /\ UNCHANGED <<inputVars, cwd, env, truthVars, spectraVars, surveyVars, completed,
                   redrockVars>>

\* def completed_in_timerange(exposures, startmjd, stopmjd): ...
DefCompletedInTimerange ==
    /\ Ready("DefCompletedInTimerange")
    /\ bound' = bound \cup {"completed_in_timerange"}
    /\ Finish("DefCompletedInTimerange", TRUE, NoOut)
    /\ UNCHANGED <<inputVars, cwd, env, truthVars, spectraVars, surveyVars, completionVars,
                   redrockVars>>

\* tiles.passes: the passes of the tile file, ascending
passes == Ascending({tiles[i].passnum : i \in DOMAIN tiles})

\* tiles.pass_ntiles[p]: the number of tiles of the pass
pass_ntiles(p) == Cardinality({i \in DOMAIN tiles : tiles[i].passnum = p})

\* tiles.index(tileid): the row of the tile in the tile file
index(tileid) == CHOOSE i \in DOMAIN tiles : tiles[i].tileID = tileid

\* m = (exposures['mjd'] > startmjd) & (exposures['mjd'] < stopmjd)
\* tilepass = tiles.passnum[tiles.index(exposures['tileid'])]
\* return [numpy.sum(exposures['snr2frac'][m & (tilepass == pass0)] >= 1)
\*         for pass0 in tiles.passes]
completed_in_closed_timerange(exps, start, stop) ==
    LET m == [i \in DOMAIN exps |-> exps[i].mjd >= start /\ exps[i].mjd <= stop]
        tilepass == [i \in DOMAIN exps |-> tiles[index(exps[i].tileid)].passnum]
    IN [k \in DOMAIN passes |->
          Cardinality({i \in DOMAIN exps :
                         m[i] /\ tilepass[i] = passes[k] /\ exps[i].snr2frac >= 1})]

completed_in_timerange(exps, start, stop) ==
    LET m == [i \in DOMAIN exps |-> exps[i].mjd > start /\ exps[i].mjd < stop]
        tilepass == [i \in DOMAIN exps |-> tiles[index(exps[i].tileid)].passnum]
    IN [k \in DOMAIN passes |->
          Cardinality({i \in DOMAIN exps :
                         m[i] /\ tilepass[i] = passes[k] /\ exps[i].snr2frac >= 1})]

\* completed = []; parentdir = '.../surveysim2018/weather'
\* for direc in range(100):
\*     exposures0 = fits.getdata(os.path.join(parentdir, '{:03}'.format(direc), 'exposures.fits'))
\*     completed.append(completed_in_timerange(exposures0, 58821, 58821+365))
LoopRealizations ==
    /\ Ready("LoopRealizations")
    /\ LET n == Completed(<< TRUE, TRUE,
                             {"fits", "os"} \subseteq bound,
                             {"completed_in_timerange", "tiles", "numpy"} \subseteq bound >>)
       IN /\ bound' = bound \cup (IF n >= 2 THEN {"completed", "parentdir"} ELSE {})
                            \cup (IF n >= 3 THEN {"direc", "exposures0"} ELSE {"direc"})
          /\ completed' = IF n = 4
                          THEN [k \in DOMAIN simout.realizations |->
                                  completed_in_timerange(simout.realizations[k], startmjd,
                                                         startmjd + DaysInWindow)]
                          ELSE <<>>
          /\ Finish("LoopRealizations", n = 4, NoOut)
    /\ UNCHANGED <<inputVars, cwd, env, truthVars, spectraVars, surveyVars, pass1,
                   redrockVars>>

RECURSIVE SumSeq(_)
SumSeq(s) == IF s = <<>> THEN 0 ELSE Head(s) + SumSeq(Tail(s))

\* print('pass, fraction complete, standard deviation')
\* for tpass, ttilecomplete, ttilestd in zip(tiles.passes, numpy.mean(completed, axis=0),
\*                                           numpy.std(completed, axis=0)):
\*     ntile = tiles.pass_ntiles[tpass]
\*     print('{} {:5.1%} {:5.1%}'.format(tpass, ttilecomplete/ntile, ttilestd/ntile))
\* The fraction complete of a pass is total / (runs * ntile); the standard
\* deviation over ntile is the square root of spread, over runs * ntile.
FractionLine(k) ==
    LET counts == [d \in DOMAIN completed |-> completed[d][k]]
        runs == Len(completed)
    IN [tpass |-> passes[k],
        total |-> SumSeq(counts),
        runs |-> runs,
        ntile |-> pass_ntiles(passes[k]),
        spread |-> runs * SumSeq([d \in DOMAIN counts |-> counts[d] * counts[d]])
                   - SumSeq(counts) * SumSeq(counts)]

PrintFractions ==
    /\ Ready("PrintFractions")
    /\ LET ok == /\ {"tiles", "numpy", "completed"} \subseteq bound
                 /\ completed # <<>>
       IN /\ bound' = IF ok THEN bound \cup {"tpass", "ttilecomplete", "ttilestd", "ntile"}
                      ELSE bound
          /\ Finish("PrintFractions", ok,
                    [kind |-> "fractions", data |-> [k \in DOMAIN passes |-> FractionLine(k)]])
    /\ UNCHANGED <<inputVars, cwd, env, truthVars, spectraVars, surveyVars, completionVars,
                   redrockVars>>

(***************************************************************************)
(* Redrock notebook.                                                        *)
(***************************************************************************)
minumum_number == 0

NQsoCoeff == 4

rebin == 5

NoFit == [template |-> "", coeff |-> <<>>, wave |-> <<>>, z |-> 0, times |-> 0]

NoMask == [kind |-> "none"]

NoMatrix == [n |-> 0, rebin |-> 0]

\* %pylab inline; import os, numpy as np; from redrock... import boss, zfind,
\* Spectrum, Target, DistTargetsCopy, load_dist_templates
RedrockImports ==
    /\ Ready("RedrockImports")
    /\ bound' = bound \cup {"pylab", "os", "np", "boss", "zfind", "DistTargetsCopy",
                            "load_dist_templates"}
    /\ Finish("RedrockImports", TRUE, NoOut)
    /\ UNCHANGED <<inputVars, cwd, env, truthVars, spectraVars, surveyVars, redrockVars, completionVars>>

\* spplate = ...; targets, meta = boss.read_spectra([spplate,], use_frames=False, fiberid=[...])
ReadSpectra ==
    /\ Ready("ReadSpectra")
    /\ LET n == Completed(<< "os" \in bound, "boss" \in bound >>)
       IN /\ bound' = bound \cup (IF n >= 1 THEN {"spplate"} ELSE {})
                            \cup (IF n >= 2 THEN {"targets", "meta"} ELSE {})
          /\ targets' = IF n >= 2 THEN boss.targets ELSE targets
          /\ Finish("ReadSpectra", n = 2, NoOut)
    /\ UNCHANGED <<inputVars, cwd, env, truthVars, spectraVars, surveyVars,
                   zscan, zfit, w, coeff, zbest, fit, A, completionVars>>

\* dtargets = DistTargetsCopy(targets); dwave = dtargets.wavegrids();
\* dtemplates = load_dist_templates(dwave); templates = dict(); for dt in dtemplates: ...
LoadTemplates ==
    /\ Ready("LoadTemplates")
    /\ LET n == Completed(<< {"DistTargetsCopy", "targets"} \subseteq bound, TRUE,
                             "load_dist_templates" \in bound, TRUE >>)
       IN /\ bound' = bound \cup {<<"dtargets", "dwave", "dtemplates", "templates">>[i] :
                                  i \in 1..n}
          /\ Finish("LoadTemplates", n = 4, NoOut)
    /\ UNCHANGED <<inputVars, cwd, env, truthVars, spectraVars, surveyVars, redrockVars, completionVars>>

\* zscan, zfit = zfind(dtargets, dtemplates)
Zfind ==
    /\ Ready("Zfind")
    /\ LET ok == {"zfind", "dtargets", "dtemplates"} \subseteq bound
       IN /\ zscan' = IF ok THEN boss.zscan ELSE zscan
          /\ zfit' = IF ok THEN boss.zfit ELSE zfit
          /\ bound' = IF ok THEN bound \cup {"zscan", "zfit"} ELSE bound
          /\ Finish("Zfind", ok, NoOut)
    /\ UNCHANGED <<inputVars, cwd, env, truthVars, spectraVars, surveyVars,
                   targets, w, coeff, zbest, fit, A, completionVars>>

\* targetid = targets[0].id; for template in dtemplates: plot(zscan[targetid][full_type]...)
PlotChi2 ==
    /\ Ready("PlotChi2")
    /\ LET n == Completed(<< "targets" \in bound,
                             {"dtemplates", "zscan", "pylab"} \subseteq bound >>)
       IN /\ bound' = bound \cup (IF n >= 1 THEN {"targetid"} ELSE {})
                            \cup (IF n >= 2 THEN {"template", "full_type"} ELSE {})
          /\ Finish("PlotChi2", n = 2, [kind |-> "chi2", data |-> zscan[targets[1].id]])
    /\ UNCHANGED <<inputVars, cwd, env, truthVars, spectraVars, surveyVars, redrockVars, completionVars>>

\* print("Redrock thinks {} is a {} at redshift {}"
\*       .format(targets[0].id, zfit[0]['spectype'], zfit[0]['z']))
PrintBest ==
    /\ Ready("PrintBest")
    /\ Finish("PrintBest", {"targets", "zfit"} \subseteq bound,
              [kind |-> "best", id |-> targets[1].id,
               spectype |-> zfit[1].spectype, z |-> zfit[1].z])
    /\ UNCHANGED <<inputVars, cwd, env, bound, truthVars, spectraVars, surveyVars, redrockVars, completionVars>>

\* for i, t in enumerate(templates.values()): print(i, t.full_type)
ListTemplates ==
    /\ Ready("ListTemplates")
    /\ LET ok == "templates" \in bound
       IN /\ bound' = IF ok THEN bound \cup {"i", "t"} ELSE bound
          /\ Finish("ListTemplates", ok, [kind |-> "templates", data |-> SpecTypes])
    /\ UNCHANGED <<inputVars, cwd, env, truthVars, spectraVars, surveyVars, redrockVars, completionVars>>

(***************************************************************************)
(* The fit cell.  template.eval(coeff, wave, z) is kept symbolic: its      *)
(* value records the template evaluated, what it was evaluated with, and   *)
(* the factor the array has since been multiplied by in place.  Indexing   *)
(* a table with a boolean mask copies the selected rows.                   *)
(***************************************************************************)
eval(template, c, wave, z) ==
    [template |-> template, coeff |-> c, wave |-> wave, z |-> z, times |-> 1]

ScaleInPlace(f, factor) == [f EXCEPT !.times = @ * factor]

\* (zfit[:]['targetid'] == tid) & (zfit[:]['znum'] == minumum_number)
RowMask(table, tid) ==
    [i \in DOMAIN table |-> table[i].targetid = tid /\ table[i].znum = minumum_number]

\* table[mask]
Masked(table, mask) ==
    LET idx == Ascending({i \in DOMAIN table : mask[i]})
    IN [k \in DOMAIN idx |-> table[idx[k]]]

\* table[mask]['coeff'].reshape(-1)
MaskedCoeff(table, mask) ==
    Flatten([k \in DOMAIN Masked(table, mask) |-> Masked(table, mask)[k].coeff])

\* t_qso = templates['QSO']
t_galaxy == "GALAXY"

t_qso == "QSO"

\* tid = targets[0].id; t_qso = templates['QSO']; minumum_number = 0;
\* w = (zfit[:]['targetid']==tid) & (zfit[:]['znum']==minumum_number);
\* coeff = zfit[w]['coeff'].reshape(-1); zbest = zfit[w]['z'][0];
\* fit = t_qso.eval(coeff[:4], wave, zbest); fit *= (1+zbest)
EvalFitScalingZfit ==
    /\ Ready("EvalFit")
    /\ LET n == Completed(<< "targets" \in bound, "templates" \in bound, TRUE,
                             "zfit" \in bound >>)
           mask == RowMask(zfit, targets[1].id)
           zb == Masked(zfit, mask)[1].z
       IN /\ bound' = bound \cup (IF n >= 1 THEN {"tid"} ELSE {})
                            \cup (IF n >= 2 THEN {"t_qso"} ELSE {})
                            \cup (IF n >= 3 THEN {"minumum_number"} ELSE {})
                            \cup (IF n >= 4 THEN {"w", "coeff", "zbest", "fit"} ELSE {})
          /\ w' = IF n >= 4 THEN [kind |-> "rows", mask |-> mask] ELSE w
          /\ coeff' = IF n >= 4 THEN MaskedCoeff(zfit, mask) ELSE coeff
          /\ zbest' = IF n >= 4 THEN zb ELSE zbest
          /\ fit' = IF n >= 4
                    THEN eval(t_qso, Take(MaskedCoeff(zfit, mask), NQsoCoeff),
                              targets[1].wave, zb)
                    ELSE fit
          /\ zfit' = IF n >= 4
                     THEN [i \in DOMAIN zfit |->
                             IF mask[i] THEN [zfit[i] EXCEPT !.z = @ * (1 + zb)] ELSE zfit[i]]
                     ELSE zfit
          /\ Finish("EvalFit", n = 4, NoOut)
    /\ UNCHANGED <<inputVars, cwd, env, truthVars, spectraVars, surveyVars, targets, zscan, A, completionVars>>

EvalFit ==
    /\ Ready("EvalFit")
    /\ LET n == Completed(<< "targets" \in bound, "templates" \in bound, TRUE,
                             "zfit" \in bound >>)
           mask == RowMask(zfit, targets[1].id)
           zb == Masked(zfit, mask)[1].z
       IN /\ bound' = bound \cup (IF n >= 1 THEN {"tid"} ELSE {})
                            \cup (IF n >= 2 THEN {"t_qso"} ELSE {})
                            \cup (IF n >= 3 THEN {"minumum_number"} ELSE {})
                            \cup (IF n >= 4 THEN {"w", "coeff", "zbest", "fit"} ELSE {})
          /\ w' = IF n >= 4 THEN [kind |-> "rows", mask |-> mask] ELSE w
          /\ coeff' = IF n >= 4 THEN MaskedCoeff(zfit, mask) ELSE coeff
          /\ zbest' = IF n >= 4 THEN zb ELSE zbest
          /\ fit' = IF n >= 4
                    THEN ScaleInPlace(eval(t_qso, Take(MaskedCoeff(zfit, mask), NQsoCoeff),
                                           targets[1].wave, zb), 1 + zb)
                    ELSE fit
          /\ Finish("EvalFit", n = 4, NoOut)
    /\ UNCHANGED <<inputVars, cwd, env, truthVars, spectraVars, surveyVars, targets, zscan, zfit, A, completionVars>>

\* wave = targets[0].spectra[0].wave; flux = ...; plot(wave, flux); plot(wave, fit); ylim(-1, 6)
PlotFit ==
    /\ Ready("PlotFit")
    /\ LET n == Completed(<< "targets" \in bound, TRUE, "pylab" \in bound, "fit" \in bound >>)
       IN /\ bound' = bound \cup (IF n >= 1 THEN {"wave"} ELSE {})
                            \cup (IF n >= 2 THEN {"flux"} ELSE {})
          /\ Finish("PlotFit", n = 4,
                    [kind |-> "fit over spectrum", id |-> targets[1].id,
                     wave |-> targets[1].wave, flux |-> targets[1].flux, fit |-> fit])
    /\ UNCHANGED <<inputVars, cwd, env, truthVars, spectraVars, surveyVars, redrockVars, completionVars>>

\* i = np.arange(len(fit)); A = i - i[:,None]; rebin = 5; w = abs(A) < rebin;
\* A[w] = 1.; A[~w] = 0; A /= A.sum(axis=1).reshape(-1,1);
\* plot(wave, A.dot(flux)); plot(wave, A.dot(fit))
Rebin ==
    /\ Ready("Rebin")
    /\ LET n == Completed(<< {"np", "fit"} \subseteq bound,
                             {"pylab", "wave", "flux"} \subseteq bound >>)
       IN /\ bound' = IF n >= 1 THEN bound \cup {"i", "A", "rebin", "w"} ELSE bound
          /\ w' = IF n >= 1 THEN [kind |-> "band", n |-> Len(fit.wave), rebin |-> rebin] ELSE w
          /\ A' = IF n >= 1 THEN [n |-> Len(fit.wave), rebin |-> rebin] ELSE A
          /\ Finish("Rebin", n = 2, [kind |-> "rebinned", fit |-> fit, rebin |-> rebin])
    /\ UNCHANGED <<inputVars, cwd, env, truthVars, spectraVars, surveyVars,
                   targets, zscan, zfit, coeff, zbest, fit, completionVars>>

(***************************************************************************)
(* Kernel commands.                                                         *)
(***************************************************************************)

FreshKernel ==
    /\ cwd' = StartDir
    /\ env' = InitialEnv
    /\ bound' = {}
    /\ out' = NoOut
    /\ zcat' = <<>> /\ targets_bright' = <<>> /\ targets_dark' = <<>>
    /\ truth_bright' = <<>> /\ truth_dark' = <<>> /\ ztruth' = <<>>
    /\ spectra' = <<>> /\ truemeta' = <<>> /\ itruth' = 0
    /\ exposures' = <<>> /\ tilestats' = <<>> /\ tiles' = <<>> /\ stats' = <<>>
    /\ pass1' = <<>> /\ completed' = <<>>
    /\ targets' = <<>> /\ zscan' = <<>> /\ zfit' = <<>> /\ w' = NoMask
    /\ coeff' = <<>> /\ zbest' = 0 /\ fit' = NoFit /\ A' = NoMatrix

\* Kernel > Restart
Restart ==
    /\ FreshKernel
    /\ queue' = <<>>
    /\ last' = Started
    /\ UNCHANGED inputVars

\* Kernel > Restart & Run All
RestartRunAll ==
    /\ FreshKernel
    /\ queue' = CellsOf(nb)
    /\ last' = Started
    /\ UNCHANGED inputVars

InitKernel ==
    /\ cwd = StartDir
    /\ env = InitialEnv
    /\ bound = {}
    /\ queue = <<>>
    /\ last = Started
    /\ out = NoOut
    /\ zcat = <<>> /\ targets_bright = <<>> /\ targets_dark = <<>>
    /\ truth_bright = <<>> /\ truth_dark = <<>> /\ ztruth = <<>>
    /\ spectra = <<>> /\ truemeta = <<>> /\ itruth = 0
    /\ exposures = <<>> /\ tilestats = <<>> /\ tiles = <<>> /\ stats = <<>>
    /\ pass1 = <<>> /\ completed = <<>>
    /\ targets = <<>> /\ zscan = <<>> /\ zfit = <<>> /\ w = NoMask
    /\ coeff = <<>> /\ zbest = 0 /\ fit = NoFit /\ A = NoMatrix

InitTruth ==
    /\ nb = "truth"
    /\ \/ catalogs \in CatalogInputs /\ missing = {}
       \/ catalogs = SampleCatalogs /\ missing \in MissingChoices(Range(CatalogNames))
    /\ brick = NoBrick
    /\ simout = NoSurvey
    /\ boss = NoBoss

InitVelocity ==
    /\ nb = "velocity"
    /\ catalogs \in VelocityCatalogs
    /\ missing = {}
    /\ brick = NoBrick
    /\ simout = NoSurvey
    /\ boss = NoBoss

InitSpectra ==
    /\ nb = "spectra"
    /\ catalogs = NoCatalogs
    /\ \/ brick \in BrickInputs /\ missing = {}
       \/ brick = SampleBrick /\ missing \in MissingChoices(BrickFiles)
    /\ simout = NoSurvey
    /\ boss = NoBoss

InitSurvey ==
    /\ nb = "survey"
    /\ catalogs = NoCatalogs
    /\ brick = NoBrick
    /\ simout \in SurveyInputs
    /\ boss = NoBoss
    /\ missing \in MissingChoices(SurveyFiles)

InitExposures ==
    /\ nb = "exposures"
    /\ catalogs = NoCatalogs
    /\ brick = NoBrick
    /\ simout \in {ExposureInput(ps, visits, <<startmjd, 1>>) : ps \in PassAssignments, visits \in Visits}
    /\ boss = NoBoss
    /\ missing = {}

InitWeather ==
    /\ nb = "weather"
    /\ catalogs = NoCatalogs
    /\ brick = NoBrick
    /\ simout \in ExposureInputs
    /\ boss = NoBoss
    /\ missing = {}

InitRedrock ==
    /\ nb = "redrock"
    /\ catalogs = NoCatalogs
    /\ brick = NoBrick
    /\ simout = NoSurvey
    /\ boss \in BossInputs
    /\ missing = {}

Init == InitKernel /\ (InitTruth \/ InitVelocity \/ InitSpectra \/ InitSurvey \/ InitExposures \/ InitWeather
                      \/ InitRedrock)

Next ==
    \/ Restart
    \/ RestartRunAll
    \/ Setup
    \/ Chdir
    \/ ReadCatalogs
    \/ StripTemplateType
    \/ PrintColnames
    \/ JoinZtruth
    \/ PlotDv
    \/ SpectroEnv
    \/ ReadSpectraFile
    \/ PlotTarget
    \/ OpenTruthFile
    \/ FindItruth
    \/ PlotTruth
    \/ LoadModules
    \/ SetOutput
    \/ LoadExposures
    \/ GetTiles
    \/ PrintShapes
    \/ PlotAvail
    \/ PlotSnr2frac
    \/ RestoreStats
    \/ Pylab
    \/ PrintSummary
    \/ SelectPass1
    \/ DefCompletedInTimerange
    \/ LoopRealizations
    \/ PrintFractions
    \/ RedrockImports
    \/ ReadSpectra
    \/ LoadTemplates
    \/ Zfind
    \/ PlotChi2
    \/ PrintBest
    \/ ListTemplates
    \/ EvalFit
    \/ PlotFit
    \/ Rebin

Spec == Init /\ [][Next]_vars

(***************************************************************************)
(* Properties.                                                              *)
(***************************************************************************)

\* The step just taken executed `cell`.
Ran(cell) == last.cell = cell

(***************************************************************************)
(* C3.  Right after the join cell has assigned ztruth, ztruth is the inner *)
(* join of zcat and truth_dark on TARGETID: every row combines a zcat row  *)
(* and a truth_dark row with the same TARGETID, every matching pair of     *)
(* rows appears (as often as it occurs), and no TARGETID of ztruth is      *)
(* absent from zcat or from truth_dark; in particular a catalog target     *)
(* found only in truth_bright is not in ztruth.                            *)
(***************************************************************************)
JoinAssigned == Ran("JoinZtruth") /\ {"astropy", "zcat", "truth_dark"} \subseteq bound

MatchingPairs ==
    {p \in (DOMAIN zcat) \X (DOMAIN truth_dark) :
        zcat[p[1]].TARGETID = truth_dark[p[2]].TARGETID}

Combines(row, p) ==
    /\ row.TARGETID = zcat[p[1]].TARGETID
    /\ row.TARGETID = truth_dark[p[2]].TARGETID
    /\ row.Z = zcat[p[1]].Z
    /\ row.TEMPLATETYPE = truth_dark[p[2]].TEMPLATETYPE
    /\ row.TRUEZ = truth_dark[p[2]].TRUEZ

C3_ZtruthIsInnerJoin ==
    JoinAssigned =>
        /\ \A r \in DOMAIN ztruth : \E p \in MatchingPairs : Combines(ztruth[r], p)
        /\ \A p \in MatchingPairs :
              Cardinality({r \in DOMAIN ztruth : Combines(ztruth[r], p)})
              = Cardinality({q \in MatchingPairs :
                               /\ zcat[q[1]] = zcat[p[1]]
                               /\ truth_dark[q[2]] = truth_dark[p[2]]})
        /\ Len(ztruth) = Cardinality(MatchingPairs)
        /\ Keys(ztruth) \subseteq Keys(zcat) \cap Keys(truth_dark)
        /\ "truth_bright" \in bound =>
              Keys(ztruth) \cap (Keys(truth_bright) \ Keys(truth_dark)) = {}

\* A join that kept one catalog target and dropped another, found only in truth_bright.
C3_Witness ==
    /\ JoinAssigned
    /\ ztruth # <<>>
    /\ "truth_bright" \in bound
    /\ \E id \in Keys(zcat) \cap Keys(truth_bright) : id \notin Keys(ztruth)

(***************************************************************************)
(* C5.  As amended: a different row order of the tile catalog and of       *)
(* tilestats does not make their joint use fail.  Whenever a               *)
(* plot_sky_passes cell runs with desisurvey, tiles and tilestats bound,   *)
(* it completes, and the point it is given for index i has the position    *)
(* and pass of tiles row i and the value of tilestats row i in the cell's  *)
(* column, whether or not the two rows describe the same tile.             *)
(***************************************************************************)
PlottedTogether ==
    /\ last.cell \in {"PlotAvail", "PlotSnr2frac"}
    /\ {"desisurvey", "tiles", "tilestats"} \subseteq bound

PlottedColumn == IF last.cell = "PlotAvail" THEN "avail" ELSE "snr2frac"

\* Same length, a different tile at some index.
Mismatched ==
    /\ Len(tiles) = Len(simout.simtiles)
    /\ \E i \in DOMAIN tiles : tiles[i].tileID # simout.simtiles[i]

C5_PlotPairsRowsByIndex ==
    PlottedTogether =>
        /\ last.ok
        /\ out.kind = "sky passes"
        /\ DOMAIN out.data = DOMAIN tiles
        /\ \A i \in DOMAIN tiles :
              out.data[i] = [ra |-> tiles[i].tileRA, dec |-> tiles[i].tileDEC,
                             passnum |-> tiles[i].passnum,
                             z |-> tilestats[i][PlottedColumn]]

C5_Witness ==
    /\ PlottedTogether
    /\ Mismatched
    /\ last.ok
    /\ \E i \in DOMAIN tiles : out.data[i].z # TileStat(tiles[i].tileID)[PlottedColumn]

\* C5 as stated: with mismatched rows, a cell using both tables fails.
C5_MismatchedRowsFail == (PlottedTogether /\ Mismatched) => ~last.ok

(***************************************************************************)
(* C6.  As amended: once loaded, a table is changed by no cell other than  *)
(* the one that loads it, with one exception: the cell that strips         *)
(* TEMPLATETYPE overwrites that column of truth_bright and of truth_dark   *)
(* in place, each value replaced by itself without leading and trailing    *)
(* whitespace (every value, when the cell completes); the number of rows   *)
(* and all other columns stay as loaded.                                   *)
(***************************************************************************)
LoadedTables == {"exposures", "tilestats", "stats", "zcat", "targets_bright",
                 "targets_dark", "truth_bright", "truth_dark"}

TableValue(name) ==
    CASE name = "exposures" -> exposures
      [] name = "tilestats" -> tilestats
      [] name = "stats" -> stats
      [] name = "zcat" -> zcat
      [] name = "targets_bright" -> targets_bright
      [] name = "targets_dark" -> targets_dark
      [] name = "truth_bright" -> truth_bright
      [] name = "truth_dark" -> truth_dark

LoadingCell(name) ==
    CASE name \in {"exposures", "tilestats"} -> "LoadExposures"
      [] name = "stats" -> "RestoreStats"
      [] OTHER -> "ReadCatalogs"

\* A step of a cell other than the loading cell, taken with the table loaded.
KeepsLoaded(name) ==
    /\ name \in bound
    /\ name \in bound'
    /\ last'.cell # LoadingCell(name)

StrippedInPlace(old, new, all) ==
    /\ DOMAIN new = DOMAIN old
    /\ \A i \in DOMAIN old :
          /\ new[i].TARGETID = old[i].TARGETID
          /\ new[i].TRUEZ = old[i].TRUEZ
          /\ new[i].TEMPLATETYPE \in {old[i].TEMPLATETYPE, strip(old[i].TEMPLATETYPE)}
          /\ all => new[i].TEMPLATETYPE = strip(old[i].TEMPLATETYPE)

C6_OnlyTemplateTypeIsRewritten ==
    [][\A name \in LoadedTables :
          KeepsLoaded(name) =>
             IF last'.cell = "StripTemplateType" /\ name \in {"truth_bright", "truth_dark"}
             THEN StrippedInPlace(TableValue(name), TableValue(name)', last'.ok)
             ELSE TableValue(name)' = TableValue(name)]_vars

C6_Witness ==
    /\ last.cell = "StripTemplateType"
    /\ last.ok
    /\ truth_dark # catalogs.truth_dark
    /\ truth_dark = StripColumn(catalogs.truth_dark)
    /\ zcat = catalogs.zcat

\* C6 as stated: no cell changes a loaded table.
C6_LoadedTablesAreImmutable ==
    [][\A name \in LoadedTables :
          KeepsLoaded(name) => TableValue(name)' = TableValue(name)]_vars

(***************************************************************************)
(* C8.  Once zfind has returned, no cell other than the zfind cell changes *)
(* zscan or zfit, whatever cells run and however often: selecting rows,    *)
(* reshaping coefficients, evaluating the template, scaling fit in place   *)
(* and rebinning all leave both as zfind returned them.                    *)
(***************************************************************************)
C8_ZfindResultsOnlyInspected ==
    [][({"zscan", "zfit"} \subseteq bound /\ last'.cell \notin {"Zfind", "start"})
          => (zscan' = zscan /\ zfit' = zfit /\ zfit' = boss.zfit /\ zscan' = boss.zscan)]_vars

C8_Witness ==
    /\ last.cell = "Rebin"
    /\ last.ok
    /\ fit.times # 1
    /\ w.kind = "band"
    /\ {"zscan", "zfit"} \subseteq bound
    /\ zfit = boss.zfit
    /\ zscan = boss.zscan

(***************************************************************************)
(* C9.  As amended: the fit plotted over the spectrum of targets[0] is the *)
(* QSO template evaluated on that spectrum's wavelengths with the first    *)
(* four coefficients and the redshift of the target's znum = 0 row of      *)
(* zfit, multiplied by (1 + redshift); it is the evaluation of the         *)
(* best-fit type's template exactly when that row's spectype is QSO.       *)
(***************************************************************************)
FitPlotted == last.cell = "PlotFit" /\ last.ok

BestRow ==
    CHOOSE row \in Range(zfit) : row.targetid = targets[1].id /\ row.znum = 0

IsPrefix(s, t) == Len(s) <= Len(t) /\ \A i \in DOMAIN s : s[i] = t[i]

C9_PlottedFitIsQsoTemplate ==
    FitPlotted =>
        /\ out.id = targets[1].id
        /\ out.fit.template = "QSO"
        /\ out.fit.coeff = Take(BestRow.coeff, 4)
        /\ out.fit.z = BestRow.z
        /\ out.fit.wave = targets[1].wave
        /\ out.fit.times = 1 + BestRow.z
        /\ (out.fit.template = BestRow.spectype) <=> (BestRow.spectype = "QSO")

C9_Witness ==
    /\ FitPlotted
    /\ BestRow.spectype = "GALAXY"
    /\ out.fit.template = "QSO"
    /\ Len(targets) > 1

\* C9 as stated: the plotted fit evaluates the template of the best-fit type,
\* whatever that type is, with that row's coefficients and redshift.
C9_PlottedFitIsBestFit ==
    FitPlotted =>
        /\ out.fit.template = BestRow.spectype
        /\ IsPrefix(out.fit.coeff, BestRow.coeff)
        /\ out.fit.z = BestRow.z

(***************************************************************************)
(* C4.  As amended: a failure while reading an input is not caught.  The   *)
(* failing cell stops at the failing statement: it binds the results of    *)
(* the statements before it (none when its first statement fails) and      *)
(* nothing from the failing statement on, it displays nothing, and the     *)
(* cells still queued in the run are not executed.  In a run of the whole  *)
(* notebook the failing statement is the first whose input is unavailable. *)
(***************************************************************************)
InputCells == {"ReadCatalogs", "LoadExposures", "RestoreStats", "ReadSpectraFile",
               "OpenTruthFile", "FindItruth"}

\* The names each statement of the cell assigns, in statement order.
Results(cell) ==
    CASE cell = "ReadCatalogs" -> [i \in DOMAIN CatalogNames |-> {CatalogNames[i]}]
      [] cell = "LoadExposures" -> <<{"exposures"}, {"tilestats"}>>
      [] cell = "RestoreStats" -> <<{"stats"}>>
      [] cell = "ReadSpectraFile" -> <<{"specfile"}, {"spectra"}>>
      [] cell = "OpenTruthFile" ->
            <<{"datadir"}, {"fx"}, {}, {"truewave"}, {"trueflux"}, {"truemeta"}>>
      [] cell = "FindItruth" -> <<{"itruth"}>>

\* The files and HDUs each statement of the cell reads.
Reads(cell) ==
    CASE cell = "ReadCatalogs" -> [i \in DOMAIN CatalogNames |-> {CatalogNames[i]}]
      [] cell = "LoadExposures" ->
            <<{"exposures.fits", "exposures"}, {"exposures.fits", "tiledata"}>>
      [] cell = "RestoreStats" -> <<{"stats.fits"}>>
      [] cell = "ReadSpectraFile" -> <<{}, {"spectra.fits"}>>
      [] cell = "OpenTruthFile" -> <<{}, {"truth-brick.fits"}, {}, {}, {}, {}>>
      [] cell = "FindItruth" -> <<{}>>

\* The plotted target is not in the brick's truth table.
TargetAbsent ==
    /\ {"spectra", "truemeta"} \subseteq bound
    /\ At(spectra, itarget).TARGETID \notin Keys(truemeta)

Unavailable(cell, j) ==
    \/ Reads(cell)[j] \cap missing # {}
    \/ cell = "FindItruth" /\ TargetAbsent

AssignedBefore(cell, j) == UNION {Results(cell)[i] : i \in 1..(j - 1)}

AllResults(cell) == UNION {Results(cell)[i] : i \in DOMAIN Results(cell)}

FailedRead(cell) == last'.cell = cell /\ ~last'.ok

LoopDone == last.cell = "LoopRealizations" /\ last.ok

PassOfTile(id) ==
    (CHOOSE t \in Range(simout.tilefile) : t.tileID = id).passnum

PassesOfTileFile == {t.passnum : t \in Range(simout.tilefile)}

InWindow(row) == 58821 < row.mjd /\ row.mjd < 58821 + 365

CompletedRows(exps) == {i \in DOMAIN exps : InWindow(exps[i]) /\ exps[i].snr2frac >= 1}

C11_OneCountPerPass ==
    LoopDone =>
        /\ Len(completed) = Len(simout.realizations)
        /\ \A d \in DOMAIN completed :
              LET exps == simout.realizations[d]
                  counts == completed[d]
              IN /\ Len(counts) = Cardinality(PassesOfTileFile)
                 /\ \A k \in DOMAIN counts :
                       /\ Cardinality({p \in PassesOfTileFile : p < passes[k]}) = k - 1
                       /\ passes[k] \in PassesOfTileFile
                       /\ counts[k] = Cardinality({i \in CompletedRows(exps) :
                                                     PassOfTile(exps[i].tileid) = passes[k]})
                 /\ SumSeq(counts) = Cardinality(CompletedRows(exps))

\* Two passes, a counted row, and a row with snr2frac >= 1 on an end of the
\* window that is not counted.
C11_Witness ==
    /\ LoopDone
    /\ Len(completed[1]) = 2
    /\ SumSeq(completed[1]) = 1
    /\ \E i \in DOMAIN simout.realizations[1] :
          /\ simout.realizations[1][i].mjd \in {58821, 58821 + 365}
          /\ simout.realizations[1][i].snr2frac >= 1

(***************************************************************************)
(* C12.  As stated: for every pass and realization the count returned by   *)
(* completed_in_timerange is at most the number of tiles of the pass, and  *)
(* the fraction complete that is printed is between 0% and 100%.  The      *)
(* exposures tables record the accumulated snr2frac of the row's tile.     *)
(***************************************************************************)
C12_CountsEachTileAtMostOnce ==
    /\ LoopDone =>
          \A d \in DOMAIN completed : \A k \in DOMAIN completed[d] :
             completed[d][k] <= pass_ntiles(passes[k])
    /\ (last.cell = "PrintFractions" /\ last.ok) =>
          \A k \in DOMAIN out.data :
             /\ 0 <= out.data[k].total
             /\ out.data[k].total <= out.data[k].runs * out.data[k].ntile

(***************************************************************************)
(* The pass-0 selection.                                                   *)
(***************************************************************************)
Pass1Bound == "pass1" \in bound

\* The rows of the loaded exposures whose tile satisfies a condition on its ID.
ExposuresOf(Keep(_)) == SelectSeq(exposures, LAMBDA row : Keep(row.tileid))

InPass0(id) == PassOfTile(id) = 0
NotAbovePass0(id) == \E t \in Range(simout.tilefile) : t.passnum = 0 /\ id <= t.tileID

SummaryPrinted == last.cell = "PrintSummary" /\ last.ok

\* The tiles that have at least one row in the loaded exposures.
ObservedTiles == {exposures[i].tileid : i \in DOMAIN exposures}

EarliestMjd == CHOOSE x \in Range(Column(exposures, "mjd")) :
                  \A i \in DOMAIN exposures : x <= exposures[i].mjd
LatestMjd == CHOOSE x \in Range(Column(exposures, "mjd")) :
                \A i \in DOMAIN exposures : exposures[i].mjd <= x

\* C14: the summary line reports as the tiles the survey observes the number
\* of tiles with at least one row in exposures, as the exposures the number
\* of rows of exposures, and as the dates those of the smallest and largest
\* exposure MJD.
C14_SummaryCountsObservedTiles ==
    SummaryPrinted =>
        /\ out.tiles = Cardinality(ObservedTiles)
        /\ out.exposures = Len(exposures)
        /\ out.first = get_date(EarliestMjd)
        /\ out.last = get_date(LatestMjd)

(***************************************************************************)
(* The TEMPLATETYPE clean-up.                                              *)
(***************************************************************************)
StripCompletes == last'.cell = "StripTemplateType" /\ last'.ok

\* new is old without the spaces at its end, and nothing else removed.
TrailingSpacesRemoved(old, new) ==
    \E k \in 0..Len(old) :
       /\ new = SubSeq(old, 1, k)
       /\ k > 0 => old[k] # " "
       /\ \A j \in (k + 1)..Len(old) : old[j] = " "

OnlyTrailingSpacesRemoved(old, new) ==
    /\ DOMAIN new = DOMAIN old
    /\ \A i \in DOMAIN old :
          /\ new[i].TARGETID = old[i].TARGETID
          /\ new[i].TRUEZ = old[i].TRUEZ
          /\ TrailingSpacesRemoved(old[i].TEMPLATETYPE, new[i].TEMPLATETYPE)

\* C15: a completed clean-up of TEMPLATETYPE removes trailing spaces only: in
\* truth_bright and truth_dark every value keeps its leading characters, the
\* other columns and the number and order of rows are unchanged, and a
\* clean-up that follows a completed clean-up changes nothing.
C15_StripRemovesTrailingSpacesOnly ==
    [][StripCompletes =>
          /\ OnlyTrailingSpacesRemoved(truth_bright, truth_bright')
          /\ OnlyTrailingSpacesRemoved(truth_dark, truth_dark')
          /\ (last.cell = "StripTemplateType" /\ last.ok) =>
                 (truth_bright' = truth_bright /\ truth_dark' = truth_dark)]_vars

(***************************************************************************)
(* The velocity-difference histograms.                                     *)
(***************************************************************************)
DvRuns == last.cell = "PlotDv" /\ "ztruth" \in bound /\ "pylab" \in bound

TypesInZtruth == {ztruth[i].TEMPLATETYPE : i \in DOMAIN ztruth}

ReferenceTree == env["DESI_ROOT"] \o <<"datachallenge", "reference_runs", "19.12">>

ChdirCompletes == last'.cell = "Chdir" /\ last'.ok
EnvCompletes == last'.cell = "SpectroEnv" /\ last'.ok

====
